---- MODULE Spec2Model ----
(***************************************************************************)
(* markdown2html.py: the line-oriented Markdown to HTML converter          *)
(* (convert_markdown_to_html) and its regex-based inline transformer       *)
(* (parse_inline_markup).                                                  *)
(*                                                                         *)
(* A text is a sequence of atoms.  An atom is a one-character string of    *)
(* the input, or a tag ("<p>", "<h2>", "</li>", ...) or an MD5 digest that *)
(* the program inserts whole.  Inserted atoms hold no delimiter, no        *)
(* whitespace and no line terminator, and at least one character, so the   *)
(* regular expressions treat each of them as an ordinary character.        *)
(***************************************************************************)
EXTENDS Integers, Sequences, FiniteSets, TLC

VARIABLES
    pc,            \* position of the process / of the inline driver
    argc,          \* len(sys.argv)
    file_ok,       \* os.path.exists(input_file) and os.path.isfile(input_file)
    exit_status,   \* status passed to sys.exit, -1 while running
    stderr,        \* lines printed to sys.stderr
    output,        \* the output file: <<>> while absent, else <<content>>
    html_lines,    \* list of fragments
    in_list, list_type, in_paragraph, in_bold, in_emphasis,
    log,           \* per consumed line: the line, the flags before it, the
                   \* fragments appended for it; line <<>> is end of input
    inl_text,      \* argument of parse_inline_markup (inline driver)
    inl_stages,    \* value of `text` after each re.sub of the first call
    inl_matches,   \* the matches each re.sub of the first call replaced
    inl_result,    \* value returned by the first call
    inl_again      \* value returned by the call on inl_result

vars == <<pc, argc, file_ok, exit_status, stderr, output, html_lines, in_list,
          list_type, in_paragraph, in_bold, in_emphasis, log,
          inl_text, inl_stages, inl_matches, inl_result, inl_again>>

conv_vars == <<html_lines, in_list, list_type, in_paragraph, in_bold,
               in_emphasis, log>>

inl_vars == <<inl_text, inl_stages, inl_matches, inl_result, inl_again>>

(***************************************************************************)
(* Bounds of the model.                                                    *)
(***************************************************************************)
MaxLines == 3
MaxTokens == 4
MaxArgc == 4

(***************************************************************************)
(* Characters and strings.                                                 *)
(***************************************************************************)
NL == "\n"

\* str.strip / str.rstrip with no argument, and \s of a str pattern
Whitespace == {" ", "\t", "\n", "\r", "\f"}

Min(S) == CHOOSE x \in S : \A y \in S : x <= y

RECURSIVE Join(_)
\* the characters of a text as one string
Join(t) == IF t = <<>> THEN "" ELSE Head(t) \o Join(Tail(t))

RECURSIVE Concat(_)
\* the concatenation of a sequence of texts
Concat(ts) == IF ts = <<>> THEN <<>> ELSE Head(ts) \o Concat(Tail(ts))

\* str.rstrip(): the longest prefix not ending in whitespace
rstrip(t) ==
    LET keep == {n \in 0..Len(t) : n = 0 \/ t[n] \notin Whitespace}
        n == CHOOSE m \in keep : \A k \in keep : k <= m
    IN  SubSeq(t, 1, n)

\* line.strip() != ""
NonBlank(t) == \E i \in 1..Len(t) : t[i] \notin Whitespace

(***************************************************************************)
(* parse_inline_markup: four re.sub calls in a fixed order.                *)
(***************************************************************************)
\* variant: the bold pattern with .*? for .+?, which matches an empty interior
bold_pattern_star == [kind |-> "bold", open |-> <<"*", "*">>, close |-> <<"*", "*">>, min |-> 0]

bold_pattern     == [kind |-> "bold", open |-> <<"*", "*">>, close |-> <<"*", "*">>, min |-> 1]
emphasis_pattern == [kind |-> "em",   open |-> <<"_", "_">>, close |-> <<"_", "_">>, min |-> 1]
md5_pattern      == [kind |-> "md5",  open |-> <<"[", "[">>, close |-> <<"]", "]">>, min |-> 1]
remove_c_pattern == [kind |-> "rm",   open |-> <<"(", "(">>, close |-> <<")", ")">>, min |-> 0]

\* hashlib.md5(x.encode()).hexdigest(): an uninterpreted function of x,
\* one atom of 32 hexadecimal characters
Md5Hex(x) == "md5(" \o Join(x) \o ")"

\* the replacement of one match, from its group 1
Replacement(p, g) ==
    CASE p.kind = "bold" -> <<"<b>">> \o g \o <<"</b>">>
      [] p.kind = "em"   -> <<"<em>">> \o g \o <<"</em>">>
      [] p.kind = "md5"  -> <<Md5Hex(g)>>
      [] p.kind = "rm"   -> <<>>

\* variant: matching with re.DOTALL, "." also matches the line terminator
MatchEndDotAll(p, t, i) ==
    LET ends == {j \in (i + 2 + p.min)..(Len(t) - 1) :
                    t[j] = p.close[1] /\ t[j + 1] = p.close[2]}
    IN  IF /\ i + 1 <= Len(t)
           /\ t[i] = p.open[1]
           /\ t[i + 1] = p.open[2]
           /\ ends # {}
        THEN Min(ends) + 1
        ELSE 0

\* variant: greedy matching, .+ and .* for .+? and .*?
MatchEndGreedy(p, t, i) ==
    LET ends == {j \in (i + 2 + p.min)..(Len(t) - 1) :
                    /\ t[j] = p.close[1]
                    /\ t[j + 1] = p.close[2]
                    /\ \A k \in (i + 2)..(j - 1) : t[k] # NL}
    IN  IF /\ i + 1 <= Len(t)
           /\ t[i] = p.open[1]
           /\ t[i + 1] = p.open[2]
           /\ ends # {}
        THEN (CHOOSE x \in ends : \A y \in ends : y <= x) + 1
        ELSE 0

\* Index of the last character of the match of p that starts at i, 0 when
\* there is none: the opening delimiter at i, then the shortest run of at
\* least p.min characters other than the line terminator ("." with +? or *?)
\* that is followed by the closing delimiter.
MatchEnd(p, t, i) ==
    LET ends == {j \in (i + 2 + p.min)..(Len(t) - 1) :
                    /\ t[j] = p.close[1]
                    /\ t[j + 1] = p.close[2]
                    /\ \A k \in (i + 2)..(j - 1) : t[k] # NL}
    IN  IF /\ i + 1 <= Len(t)
           /\ t[i] = p.open[1]
           /\ t[i + 1] = p.open[2]
           /\ ends # {}
        THEN Min(ends) + 1
        ELSE 0

RECURSIVE SubFrom(_, _, _)
\* re.sub from position i on: leftmost match first, matches do not overlap
SubFrom(p, t, i) ==
    IF i > Len(t) THEN <<>>
    ELSE LET e == MatchEnd(p, t, i)
         IN  IF e = 0
             THEN <<t[i]>> \o SubFrom(p, t, i + 1)
             ELSE Replacement(p, SubSeq(t, i + 2, e - 2)) \o SubFrom(p, t, e + 1)

re_sub(p, t) == SubFrom(p, t, 1)

RECURSIVE MatchesFrom(_, _, _)
\* the matches re.sub replaces from position i on, each <<first, last>>
MatchesFrom(p, t, i) ==
    IF i > Len(t) THEN <<>>
    ELSE LET e == MatchEnd(p, t, i)
         IN  IF e = 0
             THEN MatchesFrom(p, t, i + 1)
             ELSE << <<i, e>> >> \o MatchesFrom(p, t, e + 1)

\* variant: the removal of ((...)) done first
InlineOrderRemoveFirst == <<remove_c_pattern, bold_pattern, emphasis_pattern, md5_pattern>>

\* the order of the substitutions
InlineOrder == <<bold_pattern, emphasis_pattern, md5_pattern, remove_c_pattern>>

RECURSIVE StagesFrom(_, _)
\* the values `text` takes after each of the substitutions ps, from t
StagesFrom(ps, t) ==
    IF ps = <<>> THEN <<>>
    ELSE LET u == re_sub(Head(ps), t)
         IN  <<u>> \o StagesFrom(Tail(ps), u)

inline_stages(text) == StagesFrom(InlineOrder, text)

\* the matches of each substitution, each on the text the one before left
inline_matches(text) ==
    [n \in 1..Len(InlineOrder) |->
        MatchesFrom(InlineOrder[n],
                    IF n = 1 THEN text ELSE inline_stages(text)[n - 1], 1)]

parse_inline_markup(text) ==
    LET s == inline_stages(text) IN s[Len(s)]

(***************************************************************************)
(* The inline driver: parse_inline_markup on a bounded set of strings,     *)
(* once and then again on its own result.                                  *)
(***************************************************************************)
InlineTokens ==
    { <<"*", "*">>, <<"_", "_">>, <<"[", "[">>, <<"]", "]">>,
      <<"(", "(">>, <<")", ")">>, <<"a">>, <<"*">>, <<NL>> }

RECURSIVE TokenTexts(_)
\* the concatenations of exactly n tokens
TokenTexts(n) ==
    IF n = 0 THEN {<<>>}
    ELSE {k \o r : k \in InlineTokens, r \in TokenTexts(n - 1)}

\* the cases of the documentation, longer than the exhaustive part
InlineCases ==
    { <<"[", "[", "*", "*", "a", "*", "*", "]", "]">>,
      <<"[", "[", "a", "[", "[", "b", "]", "]", "c", "]", "]">>,
      <<"*", "(", "(", ")", ")", "*", "a", "*", "*">>,
      <<"(", "(", "d", "r", "o", "p", " ", "m", "e", ")", ")", "r", "e", "s", "t">>,
      <<"[", "[", "a", "b", "c", "]", "]">>,
      <<"*", "*", "h", "i", "*", "*">>,
      <<"_", "_", "h", "i", "_", "_">> }

InlineInputs == UNION {TokenTexts(n) : n \in 0..MaxTokens} \cup InlineCases

NoProcess ==
    /\ argc = 0
    /\ file_ok = FALSE
    /\ exit_status = -1
    /\ stderr = <<>>
    /\ output = <<>>
    /\ html_lines = <<>>
    /\ in_list = FALSE
    /\ list_type = ""
    /\ in_paragraph = FALSE
    /\ in_bold = FALSE
    /\ in_emphasis = FALSE
    /\ log = <<>>

InlineInit ==
    /\ pc = "inline"
    /\ NoProcess
    /\ inl_text \in InlineInputs
    /\ inl_stages = <<>>
    /\ inl_matches = <<>>
    /\ inl_result = <<>>
    /\ inl_again = <<>>

ParseInline ==
    /\ pc = "inline"
    /\ pc' = "applied"
    /\ inl_stages' = inline_stages(inl_text)
    /\ inl_matches' = inline_matches(inl_text)
    /\ inl_result' = parse_inline_markup(inl_text)
    /\ UNCHANGED <<inl_text, inl_again>>
    /\ UNCHANGED <<argc, file_ok, exit_status, stderr, output, conv_vars>>

ParseInlineAgain ==
    /\ pc = "applied"
    /\ pc' = "twice"
    /\ inl_again' = parse_inline_markup(inl_result)
    /\ UNCHANGED <<inl_text, inl_stages, inl_matches, inl_result>>
    /\ UNCHANGED <<argc, file_ok, exit_status, stderr, output, conv_vars>>

InlineNext == ParseInline \/ ParseInlineAgain

InlineSpec == InlineInit /\ [][InlineNext]_vars

(***************************************************************************)
(* convert_markdown_to_html: the per-line state machine.                   *)
(***************************************************************************)
\* a fragment made of one tag
Tag(name) == <<"<" \o name \o ">">>

Last(s) == s[Len(s)]

\* (.*)$ from position i: no line terminator but a final one
DotStarToEnd(line, i) ==
    \A k \in i..Len(line) : line[k] = NL => k = Len(line)

\* the text (.*) captures from position i: up to the final line terminator
Captured(line, i) ==
    SubSeq(line, i, IF Len(line) >= i /\ Last(line) = NL
                    THEN Len(line) - 1 ELSE Len(line))

\* len(match.group(1)) of ^(#+) : the number of leading # characters
LeadingHashes(line) ==
    Min({n \in 0..Len(line) : n = Len(line) \/ line[n + 1] # "#"})

\* variant: the heading level capped at 6, the deepest HTML heading
heading_level_capped(line) ==
    IF LeadingHashes(line) > 6 THEN 6 ELSE LeadingHashes(line)

heading_level(line) == LeadingHashes(line)

\* re.match(r"^(#+) (.*)$", line)
HeadingMatch(line) ==
    LET n == LeadingHashes(line)
    IN  /\ n >= 1
        /\ Len(line) >= n + 1
        /\ line[n + 1] = " "
        /\ DotStarToEnd(line, n + 2)

heading_text(line) == Captured(line, LeadingHashes(line) + 2)

\* re.match(r"^[*-]\s(.*)$", line)
ListItemMatch(line) ==
    /\ Len(line) >= 2
    /\ line[1] \in {"*", "-"}
    /\ line[2] \in Whitespace
    /\ DotStarToEnd(line, 3)

list_item_text(line) == Captured(line, 3)

\* variant: list_type set anew by every list item
ListTypeOfEveryItem(line, il, lt) ==
    IF line[1] = "*" THEN "ol" ELSE "ul"

\* list_type after a list item: set only by the item that opens the list
ListTypeAfterItem(line, il, lt) ==
    IF il THEN lt
    ELSE IF line[1] = "*" THEN "ol" ELSE "ul"

\* variant: the heading and list-item branches do not close the paragraph
CloseOpenInlineNoParagraph(ip, ib, ie) ==
       (IF ib THEN <<Tag("/b")>> ELSE <<>>)
    \o (IF ie THEN <<Tag("/em")>> ELSE <<>>)

\* the close tags of the heading and list-item branches
CloseOpenInline(ip, ib, ie) ==
       (IF ip THEN <<Tag("/p")>> ELSE <<>>)
    \o (IF ib THEN <<Tag("/b")>> ELSE <<>>)
    \o (IF ie THEN <<Tag("/em")>> ELSE <<>>)

HeadingFragment(line) ==
       Tag("h" \o ToString(heading_level(line)))
    \o parse_inline_markup(heading_text(line))
    \o Tag("/h" \o ToString(heading_level(line)))

ListItemFragment(line) ==
    Tag("li") \o parse_inline_markup(list_item_text(line)) \o Tag("/li")

\* "Indent the first line of the paragraph"
Indent == <<" ", " ", " ", " ">>

\* variant: a blank line emits no content fragment
ParagraphFragmentsNoEmptyContent(line, ip) ==
    IF ~ip /\ NonBlank(line)
    THEN <<Tag("p"), parse_inline_markup(rstrip(Indent \o line))>>
    ELSE IF ip /\ ~NonBlank(line)
    THEN <<Tag("/p")>>
    ELSE IF NonBlank(line) THEN <<parse_inline_markup(rstrip(line))>> ELSE <<>>

\* variant: a blank line outside a paragraph is skipped
ParagraphFragmentsSkipBlank(line, ip) ==
    IF ~ip /\ NonBlank(line)
    THEN <<Tag("p"), parse_inline_markup(rstrip(Indent \o line))>>
    ELSE IF ip /\ ~NonBlank(line)
    THEN <<Tag("/p"), parse_inline_markup(rstrip(line))>>
    ELSE IF ip THEN <<parse_inline_markup(rstrip(line))>> ELSE <<>>

\* the fragments of the paragraph branch, after the list was closed
ParagraphFragments(line, ip) ==
    IF ~ip /\ NonBlank(line)
    THEN <<Tag("p"), parse_inline_markup(rstrip(Indent \o line))>>
    ELSE IF ip /\ ~NonBlank(line)
    THEN <<Tag("/p"), parse_inline_markup(rstrip(line))>>
    ELSE <<parse_inline_markup(rstrip(line))>>

\* in_paragraph after the paragraph branch
ParagraphAfter(line, ip) ==
    IF ~ip /\ NonBlank(line) THEN TRUE
    ELSE IF ip /\ ~NonBlank(line) THEN FALSE
    ELSE ip

\* variant: the heading and the list-item branch leave in_paragraph as it was
InParagraphKeptAfterBlock(ip) == ip

\* in_paragraph after the heading and the list-item branch
InParagraphAfterBlock(ip) == FALSE

\* variant: a paragraph line that holds a `*` or `_` sets the flag
InlineFlagSetByDelimiter(line, flag) ==
    flag \/ \E i \in 1..Len(line) : line[i] \in {"*", "_"}

\* in_bold and in_emphasis after the paragraph branch, which assigns neither
InlineFlagAfterOther(line, flag) == flag

\* variant: the open list is closed after the fragments of the line
OtherLineFragmentsCloseLast(line, il, lt, ip) ==
       ParagraphFragments(line, ip)
    \o (IF il THEN <<Tag("/" \o lt)>> ELSE <<>>)

\* the fragments of a line that is neither heading nor list item: the open
\* list is closed first
OtherLineFragments(line, il, lt, ip) ==
       (IF il THEN <<Tag("/" \o lt)>> ELSE <<>>)
    \o ParagraphFragments(line, ip)

\* list_type after a list is closed by the paragraph branch
ListTypeAfterClose(lt) == lt

\* variant: the end of input closes the list but not the paragraph
EndFragmentsParagraphLeftOpen(il, lt, ip, ib, ie) ==
       (IF il THEN <<Tag("/" \o lt)>> ELSE <<>>)
    \o (IF ib THEN <<Tag("/b")>> ELSE <<>>)
    \o (IF ie THEN <<Tag("/em")>> ELSE <<>>)

\* the fragments appended after the last line
EndFragments(il, lt, ip, ib, ie) ==
       (IF il THEN <<Tag("/" \o lt)>> ELSE <<>>)
    \o (IF ip THEN <<Tag("/p")>> ELSE <<>>)
    \o (IF ib THEN <<Tag("/b")>> ELSE <<>>)
    \o (IF ie THEN <<Tag("/em")>> ELSE <<>>)

\* "\n".join(html_lines)
RECURSIVE JoinLines(_)
JoinLines(fs) ==
    IF fs = <<>> THEN <<>>
    ELSE IF Len(fs) = 1 THEN fs[1]
    ELSE fs[1] \o <<NL>> \o JoinLines(Tail(fs))

\* the lines a file can hold; one without a terminator can only be the last
InputLines ==
    { <<NL>>,
      <<" ", NL>>,
      <<"a", NL>>,
      <<"a">>,
      <<"*", "*", "a", "*", "*", " ", NL>>,
      <<"(", "(", "a", ")", ")", NL>>,
      <<"#", " ", "a", NL>>,
      <<"#", "#", " ", "_", "_", "a", "_", "_", NL>>,
      <<"#", "#", "#", "#", "#", "#", "#", " ", "a", NL>>,
      <<"#", " ", NL>>,
      <<"#", "a", NL>>,
      <<"-", " ", "a", NL>>,
      <<"*", " ", "[", "[", "a", "]", "]", NL>>,
      <<"-", " ", " ", "a", NL>>,
      <<"*", "\t", "a", NL>>,
      <<"-", NL>>,
      <<"*", "a", NL>>,
      <<"*", " ", "a">> }

Flags == [in_list |-> in_list, list_type |-> list_type,
          in_paragraph |-> in_paragraph]

Init ==
    /\ pc = "main"
    /\ argc \in 1..MaxArgc
    /\ file_ok \in BOOLEAN
    /\ exit_status = -1
    /\ stderr = <<>>
    /\ output = <<>>
    /\ html_lines = <<>>
    /\ in_list = FALSE
    /\ list_type = ""
    /\ in_paragraph = FALSE
    /\ in_bold = FALSE
    /\ in_emphasis = FALSE
    /\ log = <<>>
    /\ inl_text = <<>>
    /\ inl_stages = <<>>
    /\ inl_matches = <<>>
    /\ inl_result = <<>>
    /\ inl_again = <<>>

\* __main__: wrong number of arguments
UsageError ==
    /\ pc = "main"
    /\ argc # 3
    /\ stderr' = Append(stderr, "Usage: ./markdown2html.py <input_file> <output_file>")
    /\ exit_status' = 1
    /\ pc' = "exited"
    /\ UNCHANGED <<argc, file_ok, output, conv_vars, inl_vars>>

\* __main__: the call of convert_markdown_to_html
CallConvert ==
    /\ pc = "main"
    /\ argc = 3
    /\ pc' = "convert"
    /\ UNCHANGED <<argc, file_ok, exit_status, stderr, output, conv_vars, inl_vars>>

\* variant: the output file is opened for writing before the input is checked
MissingInputAfterOpenOutput ==
    /\ pc = "convert"
    /\ ~file_ok
    /\ stderr' = Append(stderr, "Missing <input_file>")
    /\ output' = << <<>> >>
    /\ exit_status' = 1
    /\ pc' = "exited"
    /\ UNCHANGED <<argc, file_ok, conv_vars, inl_vars>>

MissingInput ==
    /\ pc = "convert"
    /\ ~file_ok
    /\ stderr' = Append(stderr, "Missing <input_file>")
    /\ exit_status' = 1
    /\ pc' = "exited"
    /\ UNCHANGED <<argc, file_ok, output, conv_vars, inl_vars>>

OpenInput ==
    /\ pc = "convert"
    /\ file_ok
    /\ pc' = "loop"
    /\ UNCHANGED <<argc, file_ok, exit_status, stderr, output, conv_vars, inl_vars>>

\* one iteration of `for line in f`
ReadLine(line) ==
    /\ pc = "loop"
    /\ Len(log) < MaxLines
    /\ log # <<>> => Last(Last(log).line) = NL
    /\ LET emitted ==
               IF HeadingMatch(line)
               THEN CloseOpenInline(in_paragraph, in_bold, in_emphasis)
                    \o <<HeadingFragment(line)>>
               ELSE IF ListItemMatch(line)
               THEN CloseOpenInline(in_paragraph, in_bold, in_emphasis)
                    \o (IF in_list THEN <<>>
                        ELSE <<Tag(ListTypeAfterItem(line, in_list, list_type))>>)
                    \o <<ListItemFragment(line)>>
               ELSE OtherLineFragments(line, in_list, list_type, in_paragraph)
       IN  /\ html_lines' = html_lines \o emitted
           /\ log' = Append(log, [line |-> line, pre |-> Flags, emitted |-> emitted])
    /\ IF HeadingMatch(line)
       THEN /\ in_paragraph' = InParagraphAfterBlock(in_paragraph)
            /\ in_bold' = FALSE
            /\ in_emphasis' = FALSE
            /\ UNCHANGED <<in_list, list_type>>
       ELSE IF ListItemMatch(line)
       THEN /\ in_paragraph' = InParagraphAfterBlock(in_paragraph)
            /\ in_bold' = FALSE
            /\ in_emphasis' = FALSE
            /\ list_type' = ListTypeAfterItem(line, in_list, list_type)
            /\ in_list' = TRUE
       ELSE /\ in_list' = FALSE
            /\ list_type' = IF in_list THEN ListTypeAfterClose(list_type) ELSE list_type
            /\ in_paragraph' = ParagraphAfter(line, in_paragraph)
            /\ in_bold' = InlineFlagAfterOther(line, in_bold)
            /\ in_emphasis' = InlineFlagAfterOther(line, in_emphasis)
    /\ UNCHANGED <<pc, argc, file_ok, exit_status, stderr, output, inl_vars>>

\* the end of the file: the blocks still open are closed
EndOfInput ==
    /\ pc = "loop"
    /\ LET emitted == EndFragments(in_list, list_type, in_paragraph, in_bold, in_emphasis)
       IN  /\ html_lines' = html_lines \o emitted
           /\ log' = Append(log, [line |-> <<>>, pre |-> Flags, emitted |-> emitted])
    /\ pc' = "write"
    /\ UNCHANGED <<in_list, list_type, in_paragraph, in_bold, in_emphasis>>
    /\ UNCHANGED <<argc, file_ok, exit_status, stderr, output, inl_vars>>

WriteOutput ==
    /\ pc = "write"
    /\ output' = <<JoinLines(html_lines)>>
    /\ pc' = "return"
    /\ UNCHANGED <<argc, file_ok, exit_status, stderr, conv_vars, inl_vars>>

\* __main__: sys.exit(0)
ExitSuccess ==
    /\ pc = "return"
    /\ exit_status' = 0
    /\ pc' = "exited"
    /\ UNCHANGED <<argc, file_ok, stderr, output, conv_vars, inl_vars>>

Next ==
    \/ UsageError
    \/ CallConvert
    \/ MissingInput
    \/ OpenInput
    \/ \E line \in InputLines : ReadLine(line)
    \/ EndOfInput
    \/ WriteOutput
    \/ ExitSuccess

Spec == Init /\ [][Next]_vars

(***************************************************************************)
(* Vocabulary of the properties.                                           *)
(***************************************************************************)
ParagraphOpen == Tag("p")
ParagraphClose == Tag("/p")
ListOpens == {Tag("ul"), Tag("ol")}
ListCloses == {Tag("/ul"), Tag("/ol")}

\* the close fragment that belongs to a list-open fragment
CloseOf(open) == IF open = Tag("ul") THEN Tag("/ul") ELSE Tag("/ol")

IsListItemFragment(f) == Len(f) >= 2 /\ f[1] = "<li>" /\ Last(f) = "</li>"

RECURSIVE Scan(_, _, _, _)
\* The number of blocks open (0 or 1) after the fragments fs, from depth d,
\* for the open fragments O and close fragments C; -1 when a block is opened
\* while one is open or closed while none is.
Scan(fs, O, C, d) ==
    IF fs = <<>> THEN d
    ELSE IF Head(fs) \in O
    THEN (IF d = 0 THEN Scan(Tail(fs), O, C, 1) ELSE -1)
    ELSE IF Head(fs) \in C
    THEN (IF d = 1 THEN Scan(Tail(fs), O, C, 0) ELSE -1)
    ELSE Scan(Tail(fs), O, C, d)

\* the log entries of lines, and the entry of the end of input
LineEntries == {i \in 1..Len(log) : log[i].line # <<>>}
InputEnded == log # <<>> /\ Last(log).line = <<>>

\* C1: every block that is opened is closed: in the output buffer `<p>` and
\* `</p>` alternate, list-open and list-close alternate, while lines are read
\* a block is open exactly when its flag says so, and once the input has ended
\* no block is open, the end of input having appended the close fragment of
\* each block that was still open.
OpenedBlocksAreClosed ==
    LET pd == Scan(html_lines, {ParagraphOpen}, {ParagraphClose}, 0)
        ld == Scan(html_lines, ListOpens, ListCloses, 0)
    IN  /\ pc = "loop" => /\ pd = (IF in_paragraph THEN 1 ELSE 0)
                          /\ ld = (IF in_list THEN 1 ELSE 0)
        /\ pc # "loop" => pd = 0 /\ ld = 0
        /\ InputEnded =>
             LET e == Last(log)
                 n == Len(e.emitted)
             IN  /\ e.pre.in_paragraph => n >= 1 /\ e.emitted[n] = ParagraphClose
                 /\ e.pre.in_list => n >= 1 /\ e.emitted[1] \in ListCloses
                 /\ html_lines = Concat([i \in 1..Len(log) |-> log[i].emitted])

\* C1 witness: the input ended while a list was open, after a paragraph had
\* been opened and closed
EndedInsideListAfterParagraph ==
    /\ InputEnded
    /\ Last(log).pre.in_list
    /\ \E i \in 1..Len(html_lines) : html_lines[i] = ParagraphOpen

\* C2: the list tag is decided by the item that opens the list: an item that
\* arrives outside a list emits `<ul>` when its marker is `-` and `<ol>` when
\* it is `*`, right before its `<li>` fragment; an item inside a list emits no
\* list-open fragment; every list close fragment carries the tag of the last
\* list-open fragment before it.
ListTagDecidedByOpener ==
    /\ \A i \in LineEntries :
         LET e == log[i]
             n == Len(e.emitted)
         IN  (n >= 1 /\ IsListItemFragment(e.emitted[n])) =>
               IF e.pre.in_list
               THEN \A k \in 1..n : e.emitted[k] \notin ListOpens
               ELSE /\ n >= 2
                    /\ e.emitted[n - 1] = (IF e.line[1] = "-" THEN Tag("ul") ELSE Tag("ol"))
                    /\ \A k \in 1..(n - 2) : e.emitted[k] \notin ListOpens
    /\ \A j \in 1..Len(html_lines) :
         html_lines[j] \in ListCloses \cup {Tag("/")} =>
           LET opens == {k \in 1..(j - 1) : html_lines[k] \in ListOpens}
           IN  /\ opens # {}
               /\ html_lines[j] =
                    CloseOf(html_lines[CHOOSE k \in opens : \A m \in opens : m <= k])

\* C2 witness: a list opened by a `-` item, continued by a `*` item, closed
MixedListClosed ==
    /\ \E i \in LineEntries :
         /\ i + 1 \in LineEntries
         /\ ~log[i].pre.in_list
         /\ log[i].line[1] = "-"
         /\ IsListItemFragment(Last(log[i].emitted))
         /\ log[i + 1].line[1] = "*"
         /\ IsListItemFragment(Last(log[i + 1].emitted))
    /\ \E j \in 1..Len(html_lines) : html_lines[j] = Tag("/ul")

\* C3: in every reachable converter state the list kind is none (the empty
\* string) if and only if the in-list flag is false.
ListKindNoneIffNotInList ==
    (list_type = "") <=> ~in_list

\* the shapes of the documentation: `#`s, one space, text; marker, one
\* space, text
HeadingShape(line, n) ==
    /\ n >= 1
    /\ Len(line) >= n + 1
    /\ \A k \in 1..n : line[k] = "#"
    /\ line[n + 1] = " "
    /\ \A k \in (n + 2)..(Len(line) - 1) : line[k] # NL

IsHeadingLine(line) == \E n \in 1..Len(line) : HeadingShape(line, n)

ListItemShape(line) ==
    /\ Len(line) >= 2
    /\ line[1] \in {"*", "-"}
    /\ line[2] = " "
    /\ \A k \in 3..(Len(line) - 1) : line[k] # NL

\* a line without its terminator
Chomp(line) ==
    IF line # <<>> /\ Last(line) = NL THEN SubSeq(line, 1, Len(line) - 1) ELSE line

\* C4: a line that is not a heading emits an `<li>` fragment if and only if
\* it is `*` or `-`, then exactly one space character, then the item text.
ListItemIffMarkerSpaceText ==
    \A i \in LineEntries :
        LET e == log[i]
        IN  ~IsHeadingLine(e.line) =>
              ((\E k \in 1..Len(e.emitted) : IsListItemFragment(e.emitted[k]))
                 <=> ListItemShape(e.line))

\* C5: a line of N >= 1 `#` characters, one space and a text emits exactly
\* one heading fragment, `<hN>` + parse_inline_markup(text) + `</hN>`, with N
\* the number of `#` characters (unbounded) and the text without the line
\* terminator; the only other fragment of the line is the `</p>` that closes
\* an open paragraph before it.
HeadingFragmentExact ==
    \A i \in LineEntries :
        \A n \in 1..Len(log[i].line) :
            LET e == log[i]
                text == SubSeq(Chomp(e.line), n + 2, Len(Chomp(e.line)))
            IN  HeadingShape(e.line, n) =>
                  e.emitted =
                     (IF e.pre.in_paragraph THEN <<ParagraphClose>> ELSE <<>>)
                     \o << <<"<h" \o ToString(n) \o ">">>
                           \o parse_inline_markup(text)
                           \o <<"</h" \o ToString(n) \o ">">> >>

\* C5 witness: a heading of level 7 was converted, and one with inline markup
\* in its text, and one inside a paragraph
HeadingsConverted ==
    /\ \E i \in LineEntries : HeadingShape(log[i].line, 7)
    /\ \E i \in LineEntries :
         /\ IsHeadingLine(log[i].line)
         /\ log[i].pre.in_paragraph
         /\ \E k \in 1..Len(log[i].line) : log[i].line[k] = "_"

\* lines i .. i+k-1 are the non-blank lines of a paragraph that starts at
\* line i, and line i+k is blank
ParagraphThenBlank(i, k) ==
    /\ k >= 1
    /\ i >= 1
    /\ i + k <= Len(log)
    /\ ~log[i].pre.in_paragraph
    /\ \A j \in i..(i + k - 1) :
         /\ log[j].line # <<>>
         /\ NonBlank(log[j].line)
         /\ ~HeadingMatch(log[j].line)
         /\ ~ListItemMatch(log[j].line)
    /\ log[i + k].line # <<>>
    /\ ~NonBlank(log[i + k].line)

\* the fragments emitted for lines i .. j
EmittedFor(i, j) == Concat([m \in 1..(j - i + 1) |-> log[i + m - 1].emitted])

\* the content fragment of a paragraph line: the first line is indented
ContentOf(line, first) ==
    parse_inline_markup(rstrip((IF first THEN Indent ELSE <<>>) \o line))

\* C6 as stated: the k+1 lines of a paragraph followed by a blank line emit
\* exactly `<p>`, k content fragments and `</p>`, and nothing else.
ParagraphEmitsOpenContentClose ==
    \A i \in 1..Len(log) : \A k \in 1..Len(log) :
        ParagraphThenBlank(i, k) =>
            EmittedFor(i, i + k) =
                <<ParagraphOpen>>
                \o [m \in 1..k |-> ContentOf(log[i + m - 1].line, m = 1)]
                \o <<ParagraphClose>>

\* C6 amended: the k+1 lines emit `<p>`, the k content fragments, `</p>` and
\* then the empty content fragment of the blank line, preceded by the close
\* fragment of the list that was open before the first line, if any.
ParagraphEmitsOpenContentCloseEmpty ==
    \A i \in 1..Len(log) : \A k \in 1..Len(log) :
        ParagraphThenBlank(i, k) =>
            EmittedFor(i, i + k) =
                (IF log[i].pre.in_list
                 THEN <<Tag("/" \o log[i].pre.list_type)>> ELSE <<>>)
                \o <<ParagraphOpen>>
                \o [m \in 1..k |-> ContentOf(log[i + m - 1].line, m = 1)]
                \o <<ParagraphClose, <<>> >>

\* C6 witness: a paragraph of two lines followed by a blank line
TwoLineParagraphThenBlank ==
    \E i \in 1..Len(log) : ParagraphThenBlank(i, 2)

(***************************************************************************)
(* Properties of parse_inline_markup, on the inline driver.                *)
(***************************************************************************)
\* The four delimiter pairs of the documentation, in the documented order,
\* with the least number of characters between the delimiters of a span.
DelimiterPairs ==
    << [open |-> <<"*", "*">>, close |-> <<"*", "*">>, least |-> 1],
       [open |-> <<"_", "_">>, close |-> <<"_", "_">>, least |-> 1],
       [open |-> <<"[", "[">>, close |-> <<"]", "]">>, least |-> 1],
       [open |-> <<"(", "(">>, close |-> <<")", ")">>, least |-> 0] >>

OpensAt(d, t, i) == i >= 1 /\ i + 1 <= Len(t) /\ t[i] = d.open[1] /\ t[i + 1] = d.open[2]
ClosesAt(d, t, j) == j >= 1 /\ j + 1 <= Len(t) /\ t[j] = d.close[1] /\ t[j + 1] = d.close[2]

\* t holds a complete span of d: an opening delimiter, then on the same line
\* at least d.least characters, then a closing delimiter
HasSpan(d, t) ==
    \E i \in 1..Len(t) : \E j \in (i + 2 + d.least)..Len(t) :
        /\ OpensAt(d, t, i)
        /\ ClosesAt(d, t, j)
        /\ \A k \in (i + 2)..(j - 1) : t[k] # NL

\* t holds nested delimiters of d: an opening delimiter inside a span
Nested(d, t) ==
    \E i \in 1..Len(t) : \E j \in (i + 2)..Len(t) : \E k \in (j + 2)..Len(t) :
        OpensAt(d, t, i) /\ OpensAt(d, t, j) /\ ClosesAt(d, t, k)

\* the text the n-th substitution of the first call received
StageInput(n) == IF n = 1 THEN inl_text ELSE inl_stages[n - 1]

\* the atoms of the input, and the tags the transformer inserts
PlainAtoms ==
    {"*", "_", "[", "]", "(", ")", NL, " ", "<b>", "</b>", "<em>", "</em>"}
    \cup {"a", "b", "c", "d", "e", "h", "i", "m", "o", "p", "r", "s", "t"}

\* the digests a text holds
Digests(t) == {t[i] : i \in {k \in 1..Len(t) : t[k] \notin PlainAtoms}}

\* C7: the text hashed for a `[[...]]` span is the raw interior text of the
\* input line: every digest of the result is the digest of a span of the
\* input as it was given.
HashSeesRawInterior ==
    pc \in {"applied", "twice"} =>
        Digests(inl_result) \subseteq Digests(re_sub(md5_pattern, inl_text))

\* C8 as stated: for an input whose delimiters of one pattern are unmatched
\* or nested, the substitution of that pattern changes nothing.
MalformedLeftVerbatim ==
    pc \in {"applied", "twice"} =>
        \A n \in 1..4 :
            (~HasSpan(DelimiterPairs[n], inl_text) \/ Nested(DelimiterPairs[n], inl_text))
                => inl_stages[n] = StageInput(n)

\* C8 amended: parse_inline_markup returns a text for every string, and for
\* an input with no complete span of a pattern (its delimiters are
\* unmatched) the substitution of that pattern changes nothing: the text
\* that reaches it is passed on verbatim.
UnmatchedLeftVerbatim ==
    pc \in {"applied", "twice"} =>
        /\ Len(inl_stages) = 4
        /\ inl_result = inl_stages[4]
        /\ \A k \in 1..Len(inl_result) : inl_result[k] \in STRING
        /\ \A n \in 1..4 :
             ~HasSpan(DelimiterPairs[n], inl_text) => inl_stages[n] = StageInput(n)

\* C8 witness: an input with an unmatched opening delimiter of one pattern
\* and a complete span of another, which was rewritten
UnmatchedBesideRewritten ==
    /\ pc = "applied"
    /\ inl_result # inl_text
    /\ \E n \in 1..4 :
         /\ ~HasSpan(DelimiterPairs[n], inl_text)
         /\ \E i \in 1..Len(inl_text) : OpensAt(DelimiterPairs[n], inl_text, i)
         /\ \E i \in 1..Len(inl_result) : OpensAt(DelimiterPairs[n], inl_result, i)

NoSpanAtAll(t) == \A n \in 1..4 : ~HasSpan(DelimiterPairs[n], t)

\* C9: for a string that holds none of the four delimiter pairs,
\* parse_inline_markup returns the string unchanged, and so does a second
\* application.
NoDelimiterPairIsNoOp ==
    (pc = "twice" /\ NoSpanAtAll(inl_text)) =>
        inl_result = inl_text /\ inl_again = inl_text

\* C9 witness: a string with a letter and an unmatched delimiter, applied twice
UnmatchedAppliedTwice ==
    /\ pc = "twice"
    /\ NoSpanAtAll(inl_text)
    /\ \E i \in 1..Len(inl_text) : inl_text[i] = "a"
    /\ \E n \in 1..4 : \E i \in 1..Len(inl_text) : OpensAt(DelimiterPairs[n], inl_text, i)

\* an input whose result holds a complete span
LeavesBoldSpan == <<"*", "(", "(", ")", ")", "*", "a", "*", "*">>

\* C10: parse_inline_markup is not idempotent: the second application
\* changes the result of the first exactly when that result holds a complete
\* delimited span, and it does for the input `*(())*a**`, whose result
\* `**a**` the second application rewrites to `<b>a</b>`.
SecondPassRewritesLeftSpan ==
    pc = "twice" =>
        /\ (inl_again # inl_result) <=> ~NoSpanAtAll(inl_result)
        /\ inl_text = LeavesBoldSpan =>
             /\ inl_result = <<"*", "*", "a", "*", "*">>
             /\ inl_again = <<"<b>", "a", "</b>">>

\* C10 witness: a second application that changed the result of the first
SecondPassChanged ==
    /\ pc = "twice"
    /\ inl_again # inl_result
    /\ HasSpan(DelimiterPairs[1], inl_result)

(***************************************************************************)
(* Properties of the process and of the block converter, continued.        *)
(***************************************************************************)
\* the run fails one of the two checks
FatalCondition == argc # 3 \/ ~file_ok

\* C11: both fatal conditions are detected before any conversion: a run with
\* a wrong argument count, or with a missing or non-regular input file, reads
\* no line and never creates or changes the output file, and it ends with one
\* report on the error stream and status 1; only a run that passes both
\* checks writes the output, and it ends with status 0 after writing it.
FatalBeforeConversion ==
    /\ FatalCondition =>
         /\ log = <<>>
         /\ html_lines = <<>>
         /\ output = <<>>
         /\ exit_status \in {-1, 1}
         /\ pc = "exited" => exit_status = 1 /\ Len(stderr) = 1
    /\ exit_status = 1 => FatalCondition /\ pc = "exited"
    /\ ~FatalCondition =>
         /\ stderr = <<>>
         /\ exit_status \in {-1, 0}
         /\ pc = "exited" => exit_status = 0
    /\ exit_status = 0 => pc = "exited" /\ InputEnded /\ output = <<JoinLines(html_lines)>>
    /\ output # <<>> => ~FatalCondition /\ InputEnded

\* C11 witness: a run with two arguments and a missing input file has exited
MissingInputExited ==
    /\ pc = "exited"
    /\ argc = 3
    /\ ~file_ok
    /\ exit_status = 1
    /\ stderr = <<"Missing <input_file>">>

\* the flags after line i was processed
PostFlags(i) == IF i < Len(log) THEN log[i + 1].pre ELSE Flags

\* f is a heading fragment of some level the line can give
IsHeadingFragment(f, line) ==
    /\ Len(f) >= 2
    /\ \E n \in 1..Len(line) :
         f[1] = "<h" \o ToString(n) \o ">" /\ Last(f) = "</h" \o ToString(n) \o ">"

IsBlockLine(line) == HeadingMatch(line) \/ ListItemMatch(line)

\* C12: when a heading line or a list-item line arrives while a paragraph
\* is open, `</p>` is the first fragment emitted for the line, before the
\* `<hN>` fragment and before the list-open and the `<li>` fragment, and the
\* paragraph flag is false after the line.
BlockLineClosesParagraphFirst ==
    \A i \in LineEntries :
        LET e == log[i]
            n == Len(e.emitted)
        IN  (e.pre.in_paragraph /\ IsBlockLine(e.line)) =>
              /\ n >= 2
              /\ e.emitted[1] = ParagraphClose
              /\ \A k \in 2..n : e.emitted[k] # ParagraphClose
              /\ IsHeadingFragment(e.emitted[n], e.line) \/ IsListItemFragment(e.emitted[n])
              /\ \A k \in 2..(n - 1) : e.emitted[k] \in ListOpens
              /\ ~PostFlags(i).in_paragraph

\* C12 witness: a list item arrived inside a paragraph and opened a list
ListItemInsideParagraph ==
    \E i \in LineEntries :
        /\ log[i].pre.in_paragraph
        /\ ListItemMatch(log[i].line)
        /\ Len(log[i].emitted) = 3

\* C13: when a line that is neither a heading nor a list item (a blank line
\* included) arrives while a list is open, the close fragment of the list is
\* the first fragment emitted for the line, before `<p>` and before the
\* content fragment, and the in-list flag is false after the line.
OtherLineClosesListFirst ==
    \A i \in LineEntries :
        LET e == log[i]
            n == Len(e.emitted)
        IN  (e.pre.in_list /\ ~IsBlockLine(e.line)) =>
              /\ n >= 2
              /\ e.emitted[1] = Tag("/" \o e.pre.list_type)
              /\ e.emitted[1] \in ListCloses
              /\ \A k \in 2..n : e.emitted[k] \notin ListCloses
              /\ ~PostFlags(i).in_list

\* C13 witness: a non-blank line arrived inside a list and opened a paragraph
ParagraphLineInsideList ==
    \E i \in LineEntries :
        /\ log[i].pre.in_list
        /\ ~IsBlockLine(log[i].line)
        /\ NonBlank(log[i].line)
        /\ Len(log[i].emitted) = 3

\* the fragments of a line that are content, not block tags
ContentCount(fs) ==
    Cardinality({k \in 1..Len(fs) :
        fs[k] \notin {ParagraphOpen, ParagraphClose} \cup ListCloses})

\* the close fragment of the list that was open before a line, if any
ListClosePrefix(pre) ==
    IF pre.in_list THEN <<Tag("/" \o pre.list_type)>> ELSE <<>>

\* C14 as stated: a line that is neither heading nor list item emits exactly
\* one content fragment; a blank line inside a paragraph emits `</p>` and an
\* empty content fragment, a blank line outside a paragraph emits only an
\* empty content fragment and leaves the flag false, a non-blank line inside
\* a paragraph emits only its content and leaves the flag true.
OtherLineEmitsOnlyContent ==
    \A i \in LineEntries :
        LET e == log[i]
        IN  ~IsBlockLine(e.line) =>
              /\ ContentCount(e.emitted) = 1
              /\ (~NonBlank(e.line) /\ e.pre.in_paragraph) =>
                    e.emitted = <<ParagraphClose, <<>> >>
              /\ (~NonBlank(e.line) /\ ~e.pre.in_paragraph) =>
                    e.emitted = << <<>> >> /\ ~PostFlags(i).in_paragraph
              /\ (NonBlank(e.line) /\ e.pre.in_paragraph) =>
                    e.emitted = <<ContentOf(e.line, FALSE)>> /\ PostFlags(i).in_paragraph

\* C14 amended: the same, after the close fragment of the list that was open
\* before the line, if any: a blank line that arrives inside a list emits
\* the list close and then the empty content fragment.
OtherLineEmitsContentAfterListClose ==
    \A i \in LineEntries :
        LET e == log[i]
        IN  ~IsBlockLine(e.line) =>
              /\ ContentCount(e.emitted) = 1
              /\ (~NonBlank(e.line) /\ e.pre.in_paragraph) =>
                    e.emitted = <<ParagraphClose, <<>> >>
              /\ (~NonBlank(e.line) /\ ~e.pre.in_paragraph) =>
                    /\ e.emitted = ListClosePrefix(e.pre) \o << <<>> >>
                    /\ ~PostFlags(i).in_paragraph
              /\ (NonBlank(e.line) /\ e.pre.in_paragraph) =>
                    e.emitted = <<ContentOf(e.line, FALSE)>> /\ PostFlags(i).in_paragraph

\* C14 witness: a blank line arrived inside a list, and a blank line arrived
\* outside both a list and a paragraph
BlankLineInsideList ==
    /\ \E i \in LineEntries : ~NonBlank(log[i].line) /\ log[i].pre.in_list
    /\ \E i \in LineEntries :
         ~NonBlank(log[i].line) /\ ~log[i].pre.in_list /\ ~log[i].pre.in_paragraph

\* C15: the bold and emphasis flags are false in every reachable state, so
\* no standalone `</b>` or `</em>` fragment is ever emitted, neither by the
\* heading branch, nor by the list-item branch, nor at the end of input.
InlineFlagsNeverSet ==
    /\ ~in_bold
    /\ ~in_emphasis
    /\ \A k \in 1..Len(html_lines) : html_lines[k] \notin {Tag("/b"), Tag("/em")}

\* C15 witness: a paragraph line with bold markup was followed by a heading
\* or a list item, and the input has ended
BoldLineThenBlockLine ==
    /\ InputEnded
    /\ \E i \in LineEntries :
         /\ ~IsBlockLine(log[i].line)
         /\ \E k \in 1..Len(log[i].emitted) :
              \E j \in 1..Len(log[i].emitted[k]) : log[i].emitted[k][j] = "<b>"
         /\ i + 1 \in LineEntries
         /\ IsBlockLine(log[i + 1].line)

(***************************************************************************)
(* Properties of the matching of parse_inline_markup.                      *)
(***************************************************************************)
\* position x lies in one of the matches ms
Covered(ms, x) == \E m \in 1..Len(ms) : ms[m][1] <= x /\ x <= ms[m][2]

RECURSIVE Splice(_, _, _, _)
\* the text t from position x on, with each of the matches ms replaced by
\* what the n-th substitution puts in its place
Splice(t, ms, x, n) ==
    IF ms = <<>> THEN SubSeq(t, x, Len(t))
    ELSE SubSeq(t, x, ms[1][1] - 1)
         \o Replacement(InlineOrder[n], SubSeq(t, ms[1][1] + 2, ms[1][2] - 2))
         \o Splice(t, Tail(ms), ms[1][2] + 1, n)

\* The matches of the n-th substitution pair each matched opening delimiter
\* with the nearest following closing delimiter that leaves at least `least`
\* characters between them; they run left to right without overlap; no
\* opening delimiter outside them has a closing delimiter after it on the
\* line with at least `least` characters between; the result is the text
\* with exactly these matches replaced.
ShortestMatches(n, least) ==
    LET d == DelimiterPairs[n]
        t == StageInput(n)
        ms == inl_matches[n]
    IN  /\ \A m \in 1..Len(ms) :
             LET i == ms[m][1]
                 e == ms[m][2]
             IN  /\ OpensAt(d, t, i)
                 /\ ClosesAt(d, t, e - 1)
                 /\ e - 1 >= i + 2 + least
                 /\ \A k \in (i + 2)..(e - 2) : t[k] # NL
                 /\ \A j \in (i + 2 + least)..(e - 2) : ~ClosesAt(d, t, j)
                 /\ m > 1 => i > ms[m - 1][2]
        /\ \A x \in 1..Len(t) :
             (OpensAt(d, t, x) /\ ~Covered(ms, x)) =>
                 ~\E j \in (x + 2 + least)..Len(t) :
                     ClosesAt(d, t, j) /\ \A k \in (x + 2)..(j - 1) : t[k] # NL
        /\ inl_stages[n] = Splice(t, ms, 1, n)

\* C16 as stated: in each of the four substitutions matching is
\* shortest-match, left to right and non-overlapping over all occurrences,
\* the nearest following closing delimiter being taken also when it follows
\* the opening delimiter immediately, with an empty interior.
NearestCloserEvenEmpty ==
    pc \in {"applied", "twice"} => \A n \in 1..4 : ShortestMatches(n, 0)

\* C16 amended: the same, with the nearest following closing delimiter that
\* leaves at least one character of interior for `**`, `__` and `[[ ]]`; an
\* empty interior is a span only for `(( ))`.
NearestCloserWithInterior ==
    pc \in {"applied", "twice"} =>
        \A n \in 1..4 : ShortestMatches(n, DelimiterPairs[n].least)

\* C16 witness: a bold match whose opening delimiter is followed at once by
\* a closing delimiter that was not taken, and a closing delimiter after
\* the match that was not taken either
ImmediateCloserSkipped ==
    /\ pc = "applied"
    /\ \E m \in 1..Len(inl_matches[1]) :
         LET i == inl_matches[1][m][1]
             e == inl_matches[1][m][2]
         IN  /\ ClosesAt(DelimiterPairs[1], inl_text, i + 2)
             /\ \E j \in (e + 1)..Len(inl_text) : ClosesAt(DelimiterPairs[1], inl_text, j)

(***************************************************************************)
(* Properties of the nesting of lists and paragraphs.                      *)
(***************************************************************************)
\* fragment k of the output buffer lies between a list-open fragment and
\* the close fragment of that list (or the end of the buffer)
InsideList(k) ==
    /\ html_lines[k] \notin ListOpens \cup ListCloses
    /\ \E o \in 1..(k - 1) :
         /\ html_lines[o] \in ListOpens
         /\ \A j \in (o + 1)..(k - 1) : html_lines[j] \notin ListCloses

\* C17: between a list-open fragment and its list-close fragment every
\* fragment of the output buffer is an `<li>...</li>` fragment; a heading
\* that arrives while a list is open puts no `<hN>` fragment inside it.
OnlyItemsInsideList ==
    \A k \in 1..Len(html_lines) :
        InsideList(k) => IsListItemFragment(html_lines[k])

\* C18: the in-list flag and the in-paragraph flag are never both true, so
\* the end of input emits at most one of the list-close and `</p>` fragments.
ListAndParagraphExclusive ==
    /\ ~(in_list /\ in_paragraph)
    /\ \A i \in 1..Len(log) : ~(log[i].pre.in_list /\ log[i].pre.in_paragraph)
    /\ InputEnded => Len(Last(log).emitted) <= 1

\* C18 witness: a list item arrived inside a paragraph, and the input ended
\* with one block open
ListItemInParagraphThenEnd ==
    /\ InputEnded
    /\ Len(Last(log).emitted) = 1
    /\ \E i \in LineEntries :
         log[i].pre.in_paragraph /\ ListItemMatch(log[i].line)

====
